---- MODULE Spec2Model ----
(***************************************************************************)
(* Visual Consistency Manager of the video pipeline                        *)
(* (backend/app/agents/visual_consistency_manager.py).                     *)
(*                                                                         *)
(* Python values are modelled as tagged records, so that None, strings,    *)
(* lists and dicts can sit in the same field and be compared.  A Python    *)
(* str is a sequence of tokens: a literal of the source is one token, an   *)
(* f-string is the concatenation of its literal tokens and the formatted   *)
(* values, and "".join is concatenation with the separator token.          *)
(***************************************************************************)
EXTENDS Integers, Sequences, FiniteSets, TLC

(* ------------------------------ bounds -------------------------------- *)
\* number of manager calls in one behaviour
MaxOps == 3
\* define_character is not called to add a new entry beyond this length
MaxChars == 2
MaxTasks == 2

(* --------------------------- Python values ---------------------------- *)
None == [t |-> "none"]
Str(toks) == [t |-> "str", v |-> toks]
Lit(x) == Str(<<x>>)
EmptyStr == Str(<< >>)
PyInt(n) == [t |-> "int", v |-> n]
PyBool(b) == [t |-> "bool", v |-> b]
Lst(xs) == [t |-> "list", v |-> xs]
Dict(f) == [t |-> "dict", v |-> f]
EmptyDict == Dict(<< >>)

\* bool(v) as used by `if v:`
Truthy(x) ==
    CASE x.t = "none" -> FALSE
      [] x.t = "str"  -> Len(x.v) > 0
      [] x.t = "list" -> Len(x.v) > 0
      [] x.t = "dict" -> DOMAIN x.v # {}
      [] x.t = "int"  -> x.v # 0
      [] x.t = "bool" -> x.v
      [] OTHER        -> TRUE

\* the tokens `{x}` contributes to an f-string
Fmt(x) ==
    CASE x.t = "str"  -> x.v
      [] x.t = "none" -> <<"None">>
      [] x.t = "int"  -> <<ToString(x.v)>>
      [] OTHER        -> <<"<repr>">>

\* d.get(k, default) on a dict
Get(d, k, default) == IF k \in DOMAIN d.v THEN d.v[k] ELSE default

\* xs[:n] on a list
Slice(xs, n) == SubSeq(xs, 1, IF Len(xs) < n THEN Len(xs) ELSE n)

RECURSIVE JoinToks(_, _)
JoinToks(sep, parts) ==
    IF Len(parts) = 0 THEN << >>
    ELSE IF Len(parts) = 1 THEN parts[1].v
    ELSE parts[1].v \o <<sep>> \o JoinToks(sep, Tail(parts))

\* sep.join(parts): TypeError unless every item is a str
Join(sep, parts) ==
    IF \E i \in 1..Len(parts) : parts[i].t # "str"
    THEN [raised |-> "TypeError"]
    ELSE [raised |-> "", ret |-> Str(JoinToks(sep, parts))]

(* ----------------------------- VisualState ---------------------------- *)
Fields == {"reference_image_url", "primary_colors", "art_style",
           "main_characters", "setting", "lighting", "atmosphere",
           "camera_style", "composition", "current_segment",
           "previous_scene_summary", "seed"}

\* the dataclass field defaults
FieldDefaults ==
    [reference_image_url    |-> None,
     primary_colors         |-> None,
     art_style              |-> Lit("hand-drawn cartoon illustration"),
     main_characters        |-> None,
     setting                |-> EmptyStr,
     lighting               |-> Lit("bright, warm lighting"),
     atmosphere             |-> Lit("cheerful, educational"),
     camera_style           |-> Lit("medium shot, eye level"),
     composition            |-> Lit("centered, balanced"),
     current_segment        |-> Lit("hook"),
     previous_scene_summary |-> EmptyStr,
     seed                   |-> None]

PostInit(s) ==
    [s EXCEPT !.primary_colors  = IF @ = None THEN Lst(<< >>) ELSE @,
              !.main_characters = IF @ = None THEN Lst(<< >>) ELSE @]

\* VisualState(**kwargs): TypeError on an unexpected keyword
VisualState(kwargs) ==
    IF ~(DOMAIN kwargs \subseteq Fields)
    THEN [raised |-> "TypeError"]
    ELSE [raised |-> "",
          ret |-> PostInit([f \in Fields |->
                     IF f \in DOMAIN kwargs THEN kwargs[f]
                     ELSE FieldDefaults[f]])]

\* a to_dict written field by field that leaves the seed out
ToDictWithoutSeed(s) == Dict([f \in Fields \ {"seed"} |-> s[f]])

\* asdict(self): every field copied into a new dict
ToDict(s) == Dict([f \in Fields |-> s[f]])

\* cls(**data): TypeError unless data is a mapping
FromDict(data) ==
    IF data.t # "dict" THEN [raised |-> "TypeError"] ELSE VisualState(data.v)

(* ------------------------------- state -------------------------------- *)
VARIABLES
    openrouter_api_key,  \* VisualConsistencyManager.openrouter_api_key
    visual_state,        \* VisualConsistencyManager.visual_state
    state_dict,          \* the dict a caller holds from get_state (None: none yet)
    shared,              \* state_dict's main_characters list is the very list
                         \* object of visual_state (cls(**data) copies nothing)
    last,                \* the last call: op, args, value returned, exception
    ops,                 \* number of calls made
    consistency_manager, \* VideoConsistencyHelper.consistency_manager: None, or
                         \* the manager whose fields the first two variables hold
    previous_scene,      \* VideoConsistencyHelper.previous_scene
    calls,               \* asyncio tasks on one helper: the call each one makes
    pc,                  \* where each task is: "start", "suspended", "done"
    seen,                \* what a suspended task had read of the state
    returned,            \* what each finished task's call returned
    order,               \* the tasks in the order their calls finished
    agent_3,             \* a run of agent_3_process: its arguments, where it
                         \* is, what it reported, stored and gave its caller
    batch                \* a run of BatchImageGeneratorAgent.process

helper == <<consistency_manager, previous_scene>>
tasks == <<calls, pc, seen, returned, order>>
elsewhere == <<tasks, agent_3, batch>>
vars == <<openrouter_api_key, visual_state, state_dict, shared, last, ops,
          consistency_manager, previous_scene, calls, pc, seen, returned, order,
          agent_3, batch>>

\* no asyncio task was created
NoTasks ==
    /\ calls = << >>
    /\ pc = << >>
    /\ seen = << >>
    /\ returned = << >>
    /\ order = << >>

\* agent_3_process is not running
NoAgent == agent_3 = None

\* BatchImageGeneratorAgent.process is not running
NoBatch == batch = None

(* ------------------------------- inputs ------------------------------- *)
Urls == {Lit("https://cdn/diagram-1.png"), Lit("https://cdn/diagram-2.png")}
ApiKeys == {None, Lit("sk-or-key")}

NetError == [kind |-> "neterror"]
Http(status) == [kind |-> "http", status |-> status]
HttpJson(status, data) == [kind |-> "http", status |-> status, data |-> data]

Downloads == {Http(200), Http(404), NetError}

\* a str holding JSON text, described by what json.loads makes of it
JsonText(val) == [t |-> "str", v |-> <<"<json>">>, loads |-> val]
BadText == Lit("Sorry, I cannot analyze this image")

Completion(content) ==
    Dict([choices |-> Lst(<<Dict([message |-> Dict([content |-> content])])>>)])

VFull ==
    Dict([art_style      |-> Lit("watercolor"),
          primary_colors |-> Lst(<<Lit("red"), Lit("blue"), Lit("green"), Lit("gold")>>),
          atmosphere     |-> Lit("calm"),
          subjects       |-> Lit("a water droplet")])
VPartial == Dict([art_style |-> Lit("watercolor"), subjects |-> Lit("a water droplet")])
VNullColors == Dict([primary_colors |-> None])
VList == Lst(<<Lit("watercolor")>>)

VisionResponses ==
    {NetError, Http(500),
     HttpJson(200, Dict([id |-> Lit("gen-1")])),
     HttpJson(200, Completion(BadText))}
    \cup {HttpJson(200, Completion(JsonText(val))) :
            val \in {VFull, VPartial, VNullColors, VList}}

Names == {Lit("Drippy"), Lit("Sunny")}
Descriptions == {Lit("a blue water droplet with a smiling face"), Lit("a yellow sun")}
Char(name, description) == Dict([name |-> name, description |-> description])

Summaries == {EmptyStr, Lit("Drippy rose into the sky")}
Seeds == {PyInt(42)}
\* the segment is any str: two of the four names and one that is none of them
Segments == {Lit("hook"), Lit("concept"), Lit("intro")}
Bases == {EmptyStr, Lit("Drippy explains evaporation")}
Frames == {None, Lit("Previous hook segment")}

Sessions ==
    {Dict([topic |-> Lit("Water Cycle")] @@ age @@ interest) :
        age \in {<< >>} \cup {[child_age |-> Str(a)] :
                    a \in {<<"4">>, <<"6">>, <<"9">>, <<"1", "0">>,
                          <<"e", "i", "g", "h", "t">>}},
        interest \in {<< >>, [child_interest |-> Lit("space")]}}

(* --------------------------- style extraction -------------------------- *)
\* json.loads(content): JSONDecodeError unless the text is JSON
JsonLoads(content) ==
    IF content.t = "str" /\ "loads" \in DOMAIN content
    THEN [raised |-> "", ret |-> content.loads]
    ELSE [raised |-> "JSONDecodeError"]

\* _analyze_with_vision without its `except Exception`: the body of the try
AnalyzeBody(resp) ==
    IF resp.kind = "neterror" THEN [raised |-> "HTTPError"]
    ELSE IF resp.status # 200 THEN [raised |-> "", ret |-> EmptyDict]
    ELSE IF "data" \notin DOMAIN resp THEN [raised |-> "JSONDecodeError"]
    ELSE IF resp.data.t # "dict" THEN [raised |-> "AttributeError"]
    ELSE LET choices == Get(resp.data, "choices", Lst(<<EmptyDict>>)) IN
         IF choices.t # "list" THEN [raised |-> "TypeError"]
         ELSE IF Len(choices.v) = 0 THEN [raised |-> "IndexError"]
         ELSE IF choices.v[1].t # "dict" THEN [raised |-> "AttributeError"]
         ELSE LET message == Get(choices.v[1], "message", EmptyDict) IN
              IF message.t # "dict" THEN [raised |-> "AttributeError"]
              ELSE JsonLoads(Get(message, "content", JsonText(EmptyDict)))

\* _analyze_with_vision
AnalyzeWithVision(resp) ==
    LET r == AnalyzeBody(resp) IN
    IF r.raised # "" THEN [raised |-> "", ret |-> EmptyDict] ELSE r

\* the fallback with one colour missing
FallbackStyleOneColor ==
    Dict([art_style      |-> Lit("illustrated, colorful, kid-friendly"),
          primary_colors |-> Lst(<<Lit("vibrant")>>),
          atmosphere     |-> Lit("educational, engaging")])

FallbackStyle ==
    Dict([art_style      |-> Lit("illustrated, colorful, kid-friendly"),
          primary_colors |-> Lst(<<Lit("vibrant"), Lit("saturated")>>),
          atmosphere     |-> Lit("educational, engaging")])

\* the reference is recorded only when the analysis gave attributes
MergeStyleUrlOnAttributes(vs, diagram_url, style_analysis) ==
    IF style_analysis.t # "dict"
    THEN [vs |-> vs, raised |-> "AttributeError"]
    ELSE [vs |-> [vs EXCEPT
                   !.reference_image_url =
                       IF Truthy(style_analysis) THEN diagram_url ELSE @,
                   !.art_style = Get(style_analysis, "art_style", vs.art_style),
                   !.primary_colors = Get(style_analysis, "primary_colors", Lst(<< >>)),
                   !.atmosphere = Get(style_analysis, "atmosphere", vs.atmosphere)],
          raised |-> "", ret |-> style_analysis]

\* lines 125-132: the update of the visual state from style_analysis
MergeStyle(vs, diagram_url, style_analysis) ==
    LET vs1 == [vs EXCEPT !.reference_image_url = diagram_url] IN
    IF style_analysis.t # "dict"
    THEN [vs |-> vs1, raised |-> "AttributeError"]
    ELSE [vs |-> [vs1 EXCEPT
                   !.art_style = Get(style_analysis, "art_style", vs1.art_style),
                   !.primary_colors = Get(style_analysis, "primary_colors", Lst(<< >>)),
                   !.atmosphere = Get(style_analysis, "atmosphere", vs1.atmosphere)],
          raised |-> "", ret |-> style_analysis]

\* the body of the try of extract_style_from_diagram
ExtractBody(vs, key, diagram_url, dl, vresp) ==
    IF dl.kind = "neterror" THEN [vs |-> vs, raised |-> "HTTPError"]
    ELSE IF dl.status # 200 THEN [vs |-> vs, raised |-> "", ret |-> EmptyDict]
    ELSE LET style_analysis ==
                 IF Truthy(key) THEN AnalyzeWithVision(vresp)
                 ELSE [raised |-> "", ret |-> FallbackStyle] IN
         IF style_analysis.raised # ""
         THEN [vs |-> vs, raised |-> style_analysis.raised]
         ELSE MergeStyle(vs, diagram_url, style_analysis.ret)

\* extract_style_from_diagram without its `except Exception`
ExtractStyleUncaught(vs, key, diagram_url, dl, vresp) ==
    ExtractBody(vs, key, diagram_url, dl, vresp)

\* extract_style_from_diagram
ExtractStyleFromDiagram(vs, key, diagram_url, dl, vresp) ==
    LET r == ExtractBody(vs, key, diagram_url, dl, vresp) IN
    IF r.raised # "" THEN [vs |-> r.vs, raised |-> "", ret |-> EmptyDict] ELSE r

(* ------------------------ session initialisation ----------------------- *)
DigitVal ==
    [c \in {"0", "1", "2", "3", "4", "5", "6", "7", "8", "9"} |->
        CASE c = "0" -> 0 [] c = "1" -> 1 [] c = "2" -> 2 [] c = "3" -> 3
          [] c = "4" -> 4 [] c = "5" -> 5 [] c = "6" -> 6 [] c = "7" -> 7
          [] c = "8" -> 8 [] c = "9" -> 9]

RECURSIVE DigitsVal(_)
DigitsVal(toks) ==
    IF Len(toks) = 0 THEN 0
    ELSE 10 * DigitsVal(SubSeq(toks, 1, Len(toks) - 1)) + DigitVal[toks[Len(toks)]]

\* an int() that yields 0 for what it cannot parse
IntOfOrZero(x) ==
    IF x.t = "int" THEN [raised |-> "", ret |-> x.v]
    ELSE IF x.t = "str" /\ Len(x.v) > 0 /\ \A i \in 1..Len(x.v) : x.v[i] \in DOMAIN DigitVal
         THEN [raised |-> "", ret |-> DigitsVal(x.v)]
         ELSE [raised |-> "", ret |-> 0]

\* int(x) for an int or a str of decimal digits (one token per character)
IntOf(x) ==
    IF x.t = "int" THEN [raised |-> "", ret |-> x.v]
    ELSE IF x.t # "str" THEN [raised |-> "TypeError"]
    ELSE IF Len(x.v) > 0 /\ \A i \in 1..Len(x.v) : x.v[i] \in DOMAIN DigitVal
         THEN [raised |-> "", ret |-> DigitsVal(x.v)]
         ELSE [raised |-> "ValueError"]

\* the bands with their upper ends included
ArtStyleForAgeInclusive(age) ==
    IF age <= 6 THEN Lit("simple, bold shapes, primary colors")
    ELSE IF age <= 10 THEN Lit("colorful cartoon illustration, friendly characters")
    ELSE Lit("detailed illustration, realistic elements")

\* lines 216-221
ArtStyleForAge(age) ==
    IF age < 6 THEN Lit("simple, bold shapes, primary colors")
    ELSE IF age < 10 THEN Lit("colorful cartoon illustration, friendly characters")
    ELSE Lit("detailed illustration, realistic elements")

\* initialize_from_video_session
InitializeFromVideoSession(vs, video_session_data) ==
    LET topic == Get(video_session_data, "topic", EmptyStr)
        child_age == Get(video_session_data, "child_age", None)
        child_interest == Get(video_session_data, "child_interest", EmptyStr)
        vs1 == [vs EXCEPT !.setting = Str(<<"Scene related to ">> \o Fmt(topic))]
        age == IntOf(child_age)
        vs2 == IF ~Truthy(child_age) \/ age.raised # "" THEN vs1
               ELSE [vs1 EXCEPT !.art_style = ArtStyleForAge(age.ret)]
    IN  IF Truthy(child_interest)
        THEN [vs2 EXCEPT !.atmosphere =
                  Str(<<"engaging, ">> \o Fmt(child_interest) \o <<" themed">>)]
        ELSE vs2

(* --------------------------- prompt synthesis -------------------------- *)
\* lines 266-268: one "{name}: {description}." per character, in list order
RECURSIVE CharacterParts(_)
CharacterParts(chars) ==
    IF Len(chars) = 0 THEN [raised |-> "", ret |-> << >>]
    ELSE LET char == chars[1] IN
         IF char.t # "dict" THEN [raised |-> "TypeError"]
         ELSE IF ~({"name", "description"} \subseteq DOMAIN char.v)
              THEN [raised |-> "KeyError"]
         ELSE LET rest == CharacterParts(Tail(chars)) IN
              IF rest.raised # "" THEN rest
              ELSE [raised |-> "",
                    ret |-> <<Str(Fmt(char.v["name"]) \o <<": ">>
                                  \o Fmt(char.v["description"]) \o <<".">>)>>
                            \o rest.ret]

\* the palette clause without the [:3]
ColorPartsUnsliced(primary_colors) ==
    IF ~Truthy(primary_colors) THEN [raised |-> "", ret |-> << >>]
    ELSE IF primary_colors.t # "list" THEN [raised |-> "TypeError"]
    ELSE LET colors_str == Join(", ", primary_colors.v) IN
         IF colors_str.raised # "" THEN colors_str
         ELSE [raised |-> "",
               ret |-> <<Str(<<"Color palette: ">> \o colors_str.ret.v \o <<".">>)>>]

\* lines 281-283
ColorParts(primary_colors) ==
    IF ~Truthy(primary_colors) THEN [raised |-> "", ret |-> << >>]
    ELSE IF primary_colors.t # "list" THEN [raised |-> "TypeError"]
    ELSE LET colors_str == Join(", ", Slice(primary_colors.v, 3)) IN
         IF colors_str.raised # "" THEN colors_str
         ELSE [raised |-> "",
               ret |-> <<Str(<<"Color palette: ">> \o colors_str.ret.v \o <<".">>)>>]

\* the previous-frame clause put before the motion clause
VideoPartsFrameFirst(is_video, previous_frame) ==
    IF ~is_video THEN << >>
    ELSE (IF Truthy(previous_frame)
          THEN <<Str(<<"Matching previous frame: ">> \o Fmt(previous_frame) \o <<".">>)>>
          ELSE << >>)
         \o <<Lit("Smooth motion, cinematic camera movement.")>>

\* lines 275-278
VideoParts(is_video, previous_frame) ==
    IF ~is_video THEN << >>
    ELSE <<Lit("Smooth motion, cinematic camera movement.")>>
         \o (IF Truthy(previous_frame)
             THEN <<Str(<<"Matching previous frame: ">> \o Fmt(previous_frame) \o <<".">>)>>
             ELSE << >>)

\* the continuity clause without the test on the segment
ContinuityPartsEverySegment(vs, segment) ==
    IF Truthy(vs.previous_scene_summary)
    THEN <<Str(<<"Continuing from previous scene: ">>
               \o Fmt(vs.previous_scene_summary) \o <<".">>)>>
    ELSE << >>

\* lines 252-254
ContinuityParts(vs, segment) ==
    IF Truthy(vs.previous_scene_summary) /\ segment # Lit("hook")
    THEN <<Str(<<"Continuing from previous scene: ">>
               \o Fmt(vs.previous_scene_summary) \o <<".">>)>>
    ELSE << >>

\* the segment is never recorded
KeepCurrentSegment(vs, segment) == vs

\* the segment recorded as the scene summary too
UpdateSegmentAndSummary(vs, segment) ==
    [vs EXCEPT !.current_segment = segment, !.previous_scene_summary = segment]

\* lines 288-289
UpdateCurrentSegment(vs, segment) == [vs EXCEPT !.current_segment = segment]

\* generate_consistent_prompt: the visual state it leaves and what it returns
GenerateConsistentPrompt(vs, base_description, segment, is_video, previous_frame) ==
    LET p1 == ContinuityParts(vs, segment)
        p2 == Append(p1, base_description)
        p3 == Append(p2, Str(<<"Art style: ">> \o Fmt(vs.art_style) \o <<".">>))
        p4 == Append(p3, Str(Fmt(vs.lighting) \o <<", ">> \o Fmt(vs.atmosphere) \o <<".">>))
        chars == IF ~Truthy(vs.main_characters) THEN [raised |-> "", ret |-> << >>]
                 ELSE IF vs.main_characters.t # "list" THEN [raised |-> "TypeError"]
                 ELSE CharacterParts(vs.main_characters.v)
        colors == ColorParts(vs.primary_colors)
    IN  IF chars.raised # "" THEN [vs |-> vs, raised |-> chars.raised]
        ELSE IF colors.raised # "" THEN [vs |-> vs, raised |-> colors.raised]
        ELSE LET p5 == p4 \o chars.ret
                 p6 == IF Truthy(vs.setting)
                       THEN Append(p5, Str(<<"Setting: ">> \o Fmt(vs.setting) \o <<".">>))
                       ELSE p5
                 p7 == p6 \o VideoParts(is_video, previous_frame)
                 p8 == p7 \o colors.ret
                 prompt_parts ==
                     Append(p8, Str(Fmt(vs.camera_style) \o <<", ">>
                                    \o Fmt(vs.composition) \o <<".">>))
                 vs1 == UpdateCurrentSegment(vs, segment)
                 joined == Join(" ", prompt_parts)
             IN  IF joined.raised # "" THEN [vs |-> vs1, raised |-> joined.raised]
                 ELSE [vs |-> vs1, raised |-> "", ret |-> joined.ret]

(* --------------------------- state mutation ---------------------------- *)
\* an update_scene_context that starts the segments over
UpdateSceneContextRewinds(vs, scene_description) ==
    [vs EXCEPT !.previous_scene_summary = scene_description,
               !.current_segment = Lit("hook")]

\* update_scene_context
UpdateSceneContext(vs, scene_description) ==
    [vs EXCEPT !.previous_scene_summary = scene_description]

\* position of the first entry called name, 0 if there is none
FirstNamed(chars, name) ==
    IF \E i \in 1..Len(chars) : chars[i].v["name"] = name
    THEN CHOOSE i \in 1..Len(chars) :
            /\ chars[i].v["name"] = name
            /\ \A j \in 1..(i - 1) : chars[j].v["name"] # name
    ELSE 0

\* define_character, on the list of characters
DefineCharacter(chars, name, description) ==
    LET i == FirstNamed(chars, name) IN
    IF i # 0
    THEN [chars EXCEPT ![i] = Dict(("description" :> description) @@ @.v)]
    ELSE Append(chars, Char(name, description))

\* set_seed
SetSeed(vs, seed) == [vs EXCEPT !.seed = seed]

\* get_reference_image_params without the test of line 360
ReferenceImageParamsUntested(vs) ==
    Dict([reference_image_url |-> vs.reference_image_url,
          style_weight        |-> [t |-> "float", tenths |-> 6],
          reference_type      |-> Lit("style")])

\* get_reference_image_params
ReferenceImageParams(vs) ==
    IF ~Truthy(vs.reference_image_url) THEN None
    ELSE Dict([reference_image_url |-> vs.reference_image_url,
               style_weight        |-> [t |-> "float", tenths |-> 6],
               reference_type      |-> Lit("style")])

(* ------------------------------- actions ------------------------------- *)
NotCalled == [kind |-> "notcalled"]

\* snapshots a caller can hand to load_state besides the one get_state gave:
\* a full snapshot that lists one character name twice
DuplicateNames ==
    Dict([ToDict(VisualState(<< >>).ret).v EXCEPT
            !.main_characters =
                Lst(<<Char(Lit("Drippy"), Lit("a yellow sun")),
                      Char(Lit("Drippy"), Lit("a blue water droplet with a smiling face"))>>)])

DefaultSnapshot == ToDict(VisualState(<< >>).ret)

\* a snapshot with one key only
MissingKeys == Dict([art_style |-> Lit("watercolor")])

\* a snapshot with a key that is no field
UnknownKey == Dict([DefaultSnapshot.v EXCEPT !.seed = PyInt(42)] @@ [version |-> PyInt(2)])

\* a character entry without a description
MissingDescription ==
    Dict([DefaultSnapshot.v EXCEPT
            !.main_characters = Lst(<<Dict([name |-> Lit("Drippy")])>>)])

\* a colour that is a number
NonStringColor ==
    Dict([DefaultSnapshot.v EXCEPT !.primary_colors = Lst(<<PyInt(16711680)>>)])

\* art_style null
NullArtStyle == Dict([DefaultSnapshot.v EXCEPT !.art_style = None])

StoredSnapshots ==
    {DuplicateNames, MissingKeys, UnknownKey, MissingDescription, NonStringColor,
     NullArtStyle}

Init ==
    /\ openrouter_api_key \in ApiKeys
    /\ visual_state = VisualState(<< >>).ret
    /\ state_dict = None
    /\ shared = FALSE
    /\ last = [op |-> "__init__", args |-> << >>, raised |-> "", ret |-> None]
    /\ ops = 0
    /\ consistency_manager = None
    /\ previous_scene = None
    /\ NoTasks
    /\ NoAgent
    /\ NoBatch

Called(op, args, raised, ret) ==
    /\ last' = [op |-> op, args |-> args, raised |-> raised, ret |-> ret]
    /\ ops' = ops + 1

ExtractStyle ==
    /\ ops < MaxOps
    /\ \E diagram_url \in Urls, dl \in Downloads :
       \E vresp \in IF Truthy(openrouter_api_key) /\ dl = Http(200)
                    THEN VisionResponses ELSE {NotCalled} :
          LET r == ExtractStyleFromDiagram(visual_state, openrouter_api_key,
                                           diagram_url, dl, vresp) IN
          /\ visual_state' = r.vs
          /\ Called("extract_style_from_diagram",
                    [diagram_url |-> diagram_url, download |-> dl, vision |-> vresp],
                    r.raised, IF r.raised = "" THEN r.ret ELSE None)
    /\ UNCHANGED <<openrouter_api_key, state_dict, shared>>
    /\ UNCHANGED helper
    /\ UNCHANGED elsewhere

InitializeSession ==
    /\ ops < MaxOps
    /\ \E video_session_data \in Sessions :
          /\ visual_state' = InitializeFromVideoSession(visual_state, video_session_data)
          /\ Called("initialize_from_video_session",
                    [video_session_data |-> video_session_data], "", None)
    /\ UNCHANGED <<openrouter_api_key, state_dict, shared>>
    /\ UNCHANGED helper
    /\ UNCHANGED elsewhere

GeneratePrompt ==
    /\ ops < MaxOps
    /\ \E base_description \in Bases, segment \in Segments,
          is_video \in BOOLEAN, previous_frame \in Frames :
          LET r == GenerateConsistentPrompt(visual_state, base_description, segment,
                                            is_video, previous_frame) IN
          /\ visual_state' = r.vs
          /\ Called("generate_consistent_prompt",
                    [base_description |-> base_description, segment |-> segment,
                     is_video |-> is_video, previous_frame |-> previous_frame],
                    r.raised, IF r.raised = "" THEN r.ret ELSE None)
    /\ UNCHANGED <<openrouter_api_key, state_dict, shared>>
    /\ UNCHANGED helper
    /\ UNCHANGED elsewhere

UpdateScene ==
    /\ ops < MaxOps
    /\ \E scene_description \in Summaries :
          /\ visual_state' = UpdateSceneContext(visual_state, scene_description)
          /\ Called("update_scene_context",
                    [scene_description |-> scene_description], "", None)
    /\ UNCHANGED <<openrouter_api_key, state_dict, shared>>
    /\ UNCHANGED helper
    /\ UNCHANGED elsewhere

\* the list is changed in place: a dict sharing it changes with it
DefineChar ==
    /\ ops < MaxOps
    /\ \E name \in Names, description \in Descriptions :
          LET chars == visual_state.main_characters.v
              after == DefineCharacter(chars, name, description) IN
          /\ FirstNamed(chars, name) # 0 \/ Len(chars) < MaxChars
          /\ visual_state' = [visual_state EXCEPT !.main_characters = Lst(after)]
          /\ state_dict' = IF shared
                           THEN Dict([state_dict.v EXCEPT !.main_characters = Lst(after)])
                           ELSE state_dict
          /\ Called("define_character",
                    [name |-> name, description |-> description], "", None)
    /\ UNCHANGED <<openrouter_api_key, shared>>
    /\ UNCHANGED helper
    /\ UNCHANGED elsewhere

SetTheSeed ==
    /\ ops < MaxOps
    /\ \E seed \in Seeds :
          /\ visual_state' = SetSeed(visual_state, seed)
          /\ Called("set_seed", [seed |-> seed], "", None)
    /\ UNCHANGED <<openrouter_api_key, state_dict, shared>>
    /\ UNCHANGED helper
    /\ UNCHANGED elsewhere

GetState ==
    /\ ops < MaxOps
    /\ state_dict' = ToDict(visual_state)
    /\ shared' = FALSE
    /\ Called("get_state", << >>, "", ToDict(visual_state))
    /\ UNCHANGED <<openrouter_api_key, visual_state>>
    /\ UNCHANGED helper
    /\ UNCHANGED elsewhere

GetReferenceImageParams ==
    /\ ops < MaxOps
    /\ Called("get_reference_image_params", << >>, "", ReferenceImageParams(visual_state))
    /\ UNCHANGED <<openrouter_api_key, visual_state, state_dict, shared>>
    /\ UNCHANGED helper
    /\ UNCHANGED elsewhere

\* load_state of the dict the caller holds, or of a stored snapshot
LoadState ==
    /\ ops < MaxOps
    /\ \E held \in BOOLEAN :
       \E d \in IF held THEN {state_dict} \ {None} ELSE StoredSnapshots :
          LET r == FromDict(d) IN
          /\ IF r.raised = ""
             THEN /\ visual_state' = r.ret
                  /\ shared' = (held /\ d.v["main_characters"] # None)
             ELSE UNCHANGED <<visual_state, shared>>
          /\ Called("load_state", [state_dict |-> d], r.raised, None)
    /\ UNCHANGED <<openrouter_api_key, state_dict>>
    /\ UNCHANGED helper
    /\ UNCHANGED elsewhere

Next ==
    \/ ExtractStyle
    \/ InitializeSession
    \/ GeneratePrompt
    \/ UpdateScene
    \/ DefineChar
    \/ SetTheSeed
    \/ GetState
    \/ LoadState
    \/ GetReferenceImageParams

Spec == Init /\ [][Next]_vars

(* ----------------------- VideoConsistencyHelper ------------------------ *)
\* a VisualConsistencyManager instance held by the helper
Manager == [t |-> "object"]

\* what s3_client.get_object and the read of its body give
NoSuchKey == [kind |-> "error", exc |-> "NoSuchKey"]
StorageDown == [kind |-> "error", exc |-> "EndpointConnectionError"]
Stored(text) == [kind |-> "body", text |-> text]

\* a snapshot as get_state gives it in the middle of a session
SessionSnapshot ==
    Dict([DefaultSnapshot.v EXCEPT
            !.reference_image_url = Lit("https://cdn/diagram-1.png"),
            !.primary_colors = Lst(<<Lit("red"), Lit("blue"), Lit("green"), Lit("gold")>>),
            !.main_characters =
                Lst(<<Char(Lit("Drippy"), Lit("a blue water droplet with a smiling face"))>>),
            !.previous_scene_summary = Lit("Drippy rose into the sky"),
            !.seed = PyInt(42)])

StorageResponses ==
    {NoSuchKey, StorageDown, Stored(BadText), Stored(JsonText(VList))}
    \cup {Stored(JsonText(d)) : d \in StoredSnapshots \cup {DefaultSnapshot, SessionSnapshot}}

\* lines 43-56: the body of the try of initialize; cm and vs are the
\* manager the helper holds when the exception, if any, is raised
HelperInitializeBody(cm, vs, resp) ==
    IF resp.kind = "error" THEN [raised |-> resp.exc, cm |-> cm, vs |-> vs]
    ELSE LET consistency_state == JsonLoads(resp.text) IN
         IF consistency_state.raised # ""
         THEN [raised |-> consistency_state.raised, cm |-> cm, vs |-> vs]
         ELSE LET loaded == FromDict(consistency_state.ret) IN
              IF loaded.raised # ""
              THEN [raised |-> loaded.raised, cm |-> Manager, vs |-> VisualState(<< >>).ret]
              ELSE [raised |-> "", cm |-> Manager, vs |-> loaded.ret, ret |-> PyBool(TRUE)]

\* initialize whose except only logs
HelperInitializeNoDefault(cm, vs, resp) ==
    LET r == HelperInitializeBody(cm, vs, resp) IN
    IF r.raised # ""
    THEN [raised |-> "", cm |-> r.cm, vs |-> r.vs, ret |-> PyBool(FALSE)]
    ELSE r

\* VideoConsistencyHelper.initialize
HelperInitialize(cm, vs, resp) ==
    LET r == HelperInitializeBody(cm, vs, resp) IN
    IF r.raised # ""
    THEN [raised |-> "", cm |-> Manager, vs |-> VisualState(<< >>).ret, ret |-> PyBool(FALSE)]
    ELSE r

PreviousSegment(segment) == Str(<<"Previous ">> \o Fmt(segment) \o <<" segment">>)

\* enhance_video_prompt that generates without the previous scene
EnhanceWithoutFrame(cm, vs, scene, base_prompt, segment) ==
    IF ~Truthy(cm)
    THEN [vs |-> vs, previous_scene |-> scene, ret |-> base_prompt]
    ELSE LET r == GenerateConsistentPrompt(vs, base_prompt, segment, TRUE, None) IN
         IF r.raised # ""
         THEN [vs |-> r.vs, previous_scene |-> scene, ret |-> base_prompt]
         ELSE [vs |-> r.vs, previous_scene |-> PreviousSegment(segment), ret |-> r.ret]

\* enhance_video_prompt that notes the scene before it looks for a manager
EnhanceNotesSceneUnguarded(cm, vs, scene, base_prompt, segment) ==
    IF ~Truthy(cm)
    THEN [vs |-> vs, previous_scene |-> PreviousSegment(segment), ret |-> base_prompt]
    ELSE LET r == GenerateConsistentPrompt(vs, base_prompt, segment, TRUE, scene) IN
         IF r.raised # ""
         THEN [vs |-> r.vs, previous_scene |-> scene, ret |-> base_prompt]
         ELSE [vs |-> r.vs, previous_scene |-> PreviousSegment(segment), ret |-> r.ret]

\* VideoConsistencyHelper.enhance_video_prompt
EnhanceVideoPrompt(cm, vs, scene, base_prompt, segment) ==
    IF ~Truthy(cm)
    THEN [vs |-> vs, previous_scene |-> scene, ret |-> base_prompt]
    ELSE LET r == GenerateConsistentPrompt(vs, base_prompt, segment, TRUE, scene) IN
         IF r.raised # ""
         THEN [vs |-> r.vs, previous_scene |-> scene, ret |-> base_prompt]
         ELSE [vs |-> r.vs, previous_scene |-> PreviousSegment(segment), ret |-> r.ret]

\* VideoConsistencyHelper.get_seed
HelperGetSeed(cm, vs) == IF ~Truthy(cm) THEN None ELSE vs.seed

\* VideoConsistencyHelper.get_reference_image_url
HelperGetReferenceImageUrl(cm, vs) == IF ~Truthy(cm) THEN None ELSE vs.reference_image_url

\* lines 146-151: the prompts enhanced in the order of the dict
RECURSIVE EnhanceAll(_, _, _, _)
EnhanceAll(cm, vs, scene, prompts) ==
    IF Len(prompts) = 0 THEN << >>
    ELSE LET r == EnhanceVideoPrompt(cm, vs, scene, prompts[1].prompt, prompts[1].segment)
         IN  <<r.ret>> \o EnhanceAll(cm, r.vs, r.previous_scene, Tail(prompts))

\* apply_video_consistency: a new helper, initialize, then every prompt
ApplyVideoConsistency(resp, prompts) ==
    LET h == HelperInitialize(None, None, resp) IN
    EnhanceAll(h.cm, h.vs, None, prompts)

\* dicts of prompts, as the sequence of their items
PromptDicts ==
    {<<[segment |-> Lit("hook"), prompt |-> Lit("Drippy explains evaporation")],
       [segment |-> Lit("concept"), prompt |-> Lit("Drippy rises")]>>,
     <<[segment |-> Lit("concept"), prompt |-> Lit("Drippy rises")],
       [segment |-> Lit("intro"), prompt |-> EmptyStr],
       [segment |-> Lit("hook"), prompt |-> Lit("Drippy explains evaporation")]>>}

\* what a caller passes as base_prompt: the annotation str is not enforced
BasePrompts == Bases \cup {None}

\* a helper just constructed: no manager yet
HelperInit ==
    /\ openrouter_api_key = None
    /\ visual_state = None
    /\ state_dict = None
    /\ shared = FALSE
    /\ last = [op |-> "__init__", args |-> << >>, raised |-> "", ret |-> None]
    /\ ops = 0
    /\ consistency_manager = None
    /\ previous_scene = None
    /\ NoTasks
    /\ NoAgent
    /\ NoBatch

Initialize ==
    /\ ops < MaxOps
    /\ \E resp \in StorageResponses :
          LET r == HelperInitialize(consistency_manager, visual_state, resp) IN
          /\ consistency_manager' = r.cm
          /\ visual_state' = r.vs
          /\ Called("initialize", [storage |-> resp], r.raised,
                    IF r.raised = "" THEN r.ret ELSE None)
    /\ UNCHANGED <<openrouter_api_key, state_dict, shared, previous_scene>>
    /\ UNCHANGED elsewhere

EnhancePrompt ==
    /\ ops < MaxOps
    /\ \E base_prompt \in BasePrompts, segment \in Segments :
          LET r == EnhanceVideoPrompt(consistency_manager, visual_state, previous_scene,
                                      base_prompt, segment) IN
          /\ visual_state' = r.vs
          /\ previous_scene' = r.previous_scene
          /\ Called("enhance_video_prompt",
                    [base_prompt |-> base_prompt, segment |-> segment], "", r.ret)
    /\ UNCHANGED <<openrouter_api_key, state_dict, shared, consistency_manager>>
    /\ UNCHANGED elsewhere

GetSeed ==
    /\ ops < MaxOps
    /\ Called("get_seed", << >>, "", HelperGetSeed(consistency_manager, visual_state))
    /\ UNCHANGED <<openrouter_api_key, visual_state, state_dict, shared, helper>>
    /\ UNCHANGED elsewhere

GetReferenceImageUrl ==
    /\ ops < MaxOps
    /\ Called("get_reference_image_url", << >>, "",
              HelperGetReferenceImageUrl(consistency_manager, visual_state))
    /\ UNCHANGED <<openrouter_api_key, visual_state, state_dict, shared, helper>>
    /\ UNCHANGED elsewhere

\* the helper of apply_video_consistency is its own: nothing of this one changes
ApplyConsistency ==
    /\ ops < MaxOps
    /\ \E resp \in StorageResponses, prompts \in PromptDicts :
          Called("apply_video_consistency", [storage |-> resp, prompts |-> prompts], "",
                 Lst(ApplyVideoConsistency(resp, prompts)))
    /\ UNCHANGED <<openrouter_api_key, visual_state, state_dict, shared, helper>>
    /\ UNCHANGED elsewhere

HelperNext ==
    \/ Initialize
    \/ EnhancePrompt
    \/ GetSeed
    \/ GetReferenceImageUrl
    \/ ApplyConsistency

HelperSpec == HelperInit /\ [][HelperNext]_vars

(* ------------------- asyncio tasks on a shared helper ------------------ *)
\* the calls the tasks make on the helper and on its manager
TaskCalls ==
    {[op |-> "generate_consistent_prompt", base_description |-> Lit("Drippy explains evaporation"),
      segment |-> segment] : segment \in {Lit("hook"), Lit("concept")}}
    \cup {[op |-> "enhance_video_prompt", base_prompt |-> Lit("Drippy rises"),
           segment |-> segment] : segment \in {Lit("hook"), Lit("concept")}}
    \cup {[op |-> "define_character", name |-> name, description |-> Lit("a yellow sun")] :
              name \in Names}
    \cup {[op |-> "update_scene_context", scene_description |-> Lit("Drippy became a cloud")]}

\* the state of the manager the tasks share, and of its helper
SharedState == [vs |-> FromDict(SessionSnapshot).ret, scene |-> None]

\* a call run from its first line to its return on the state s
CallOn(call, s) ==
    CASE call.op = "generate_consistent_prompt" ->
            LET r == GenerateConsistentPrompt(s.vs, call.base_description, call.segment,
                                              FALSE, None) IN
            [vs |-> r.vs, scene |-> s.scene, raised |-> r.raised,
             ret |-> IF r.raised = "" THEN r.ret ELSE None]
      [] call.op = "enhance_video_prompt" ->
            LET r == EnhanceVideoPrompt(Manager, s.vs, s.scene, call.base_prompt,
                                        call.segment) IN
            [vs |-> r.vs, scene |-> r.previous_scene, raised |-> "", ret |-> r.ret]
      [] call.op = "define_character" ->
            [vs |-> [s.vs EXCEPT !.main_characters =
                        Lst(DefineCharacter(@.v, call.name, call.description))],
             scene |-> s.scene, raised |-> "", ret |-> None]
      [] call.op = "update_scene_context" ->
            [vs |-> UpdateSceneContext(s.vs, call.scene_description),
             scene |-> s.scene, raised |-> "", ret |-> None]

\* generate_consistent_prompt counted among the coroutines
AwaitsWithGenerate ==
    {"extract_style_from_diagram", "_analyze_with_vision", "generate_consistent_prompt"}

\* the methods of the manager and the helper with an await in their body:
\* only there can the event loop run another task before the call returns
Awaits == {"extract_style_from_diagram", "_analyze_with_vision"}

\* the assignments a call made between the state it read (before) and the
\* state it computed (after), made on the state as it is now (live)
WriteBack(live, before, after) ==
    [vs |-> [f \in Fields |-> IF after.vs[f] # before.vs[f] THEN after.vs[f]
                              ELSE live.vs[f]],
     scene |-> IF after.scene # before.scene THEN after.scene ELSE live.scene]

\* MaxTasks tasks were created on one initialized helper, none has run
ConcurrentInit ==
    /\ openrouter_api_key = None
    /\ visual_state = SharedState.vs
    /\ state_dict = None
    /\ shared = FALSE
    /\ last = [op |-> "__init__", args |-> << >>, raised |-> "", ret |-> None]
    /\ ops = 0
    /\ consistency_manager = Manager
    /\ previous_scene = SharedState.scene
    /\ calls \in [1..MaxTasks -> TaskCalls]
    /\ pc = [t \in 1..MaxTasks |-> "start"]
    /\ seen = [t \in 1..MaxTasks |-> None]
    /\ returned = [t \in 1..MaxTasks |-> None]
    /\ order = << >>
    /\ NoAgent
    /\ NoBatch

\* the event loop runs a task up to its next await or to the end of its call
RunTask ==
    /\ \E t \in DOMAIN calls :
          /\ pc[t] # "done"
          /\ LET live == [vs |-> visual_state, scene |-> previous_scene] IN
             IF pc[t] = "start" /\ calls[t].op \in Awaits
             THEN /\ pc' = [pc EXCEPT ![t] = "suspended"]
                  /\ seen' = [seen EXCEPT ![t] = live]
                  /\ UNCHANGED <<visual_state, previous_scene, returned, order, last>>
             ELSE LET before == IF pc[t] = "start" THEN live ELSE seen[t]
                      after == CallOn(calls[t], before)
                      now == WriteBack(live, before, after) IN
                  /\ visual_state' = now.vs
                  /\ previous_scene' = now.scene
                  /\ pc' = [pc EXCEPT ![t] = "done"]
                  /\ seen' = [seen EXCEPT ![t] = None]
                  /\ returned' = [returned EXCEPT ![t] = after.ret]
                  /\ order' = Append(order, t)
                  /\ last' = [op |-> calls[t].op, args |-> calls[t],
                              raised |-> after.raised, ret |-> after.ret]
    /\ UNCHANGED <<openrouter_api_key, state_dict, shared, ops, consistency_manager, calls>>
    /\ UNCHANGED <<agent_3, batch>>

ConcurrentNext == RunTask

ConcurrentSpec == ConcurrentInit /\ [][ConcurrentNext]_vars

(* --------------------------- agent_3_process --------------------------- *)
\* the manager, the helper and the tasks take no part in a run of an agent
NoManager ==
    /\ openrouter_api_key = None
    /\ visual_state = None
    /\ state_dict = None
    /\ shared = FALSE
    /\ last = [op |-> "__init__", args |-> << >>, raised |-> "", ret |-> None]
    /\ ops = 0
    /\ consistency_manager = None
    /\ previous_scene = None
    /\ NoTasks

manager == <<openrouter_api_key, visual_state, state_dict, shared, last, ops,
             consistency_manager, previous_scene, tasks>>

DiagramUrl == Lit("https://cdn/users/u1/s1/agent3/diagram.png")

\* the arguments of a run: how statuses travel, whether storage is
\* configured, and where the session row comes from
AgentArguments ==
    [channel : {"status_callback", "websocket_manager", "none"},
     s3_client : BOOLEAN,
     session : {"video_session_data", "db", "none"}]

\* send_status: delivered tells whether the callback (or the websocket) took
\* the status or raised
SendStatus(a, status, kwargs, delivered) ==
    IF a.channel = "none" THEN [raised |-> "", reported |-> a.reported]
    ELSE IF ~delivered THEN [raised |-> "ConnectionError", reported |-> a.reported]
    ELSE [raised |-> "", reported |-> Append(a.reported, [status |-> status] @@ kwargs)]

\* create_status_json: written tells whether put_object succeeded; its
\* failure is logged and goes no further
CreateStatusJson(a, status, written) ==
    IF ~a.s3_client THEN a.stored
    ELSE IF ~written THEN a.stored
    ELSE Append(a.stored, "agent_3_" \o status)

\* send_status then create_status_json, as each report of the try does
Report(a, status, kwargs, delivered, written, next) ==
    LET sent == SendStatus(a, status, kwargs, delivered) IN
    IF sent.raised # ""
    THEN [a EXCEPT !.step = "error", !.e = sent.raised]
    ELSE [a EXCEPT !.reported = sent.reported,
                   !.stored = CreateStatusJson(a, status, written),
                   !.step = next]

AgentInit ==
    /\ NoManager
    /\ NoBatch
    /\ \E args \in AgentArguments :
          agent_3 = args @@ [step |-> "load", reported |-> << >>, stored |-> << >>,
                             diagram_url |-> None, e |-> "", outcome |-> None]

\* lines 57-104: the session row is queried when a db and no row was given
LoadSession ==
    /\ agent_3.step = "load"
    /\ \E row \in {"found", "missing", "unreachable"} :
          agent_3' =
             IF agent_3.session # "db" \/ row = "found"
             THEN [agent_3 EXCEPT !.step = "starting"]
             ELSE [agent_3 EXCEPT
                      !.step = "raised",
                      !.outcome = [raised |-> IF row = "missing" THEN "ValueError"
                                              ELSE "OperationalError"]]
    /\ UNCHANGED <<manager, batch>>

\* lines 159-168
ReportStarting ==
    /\ agent_3.step = "starting"
    /\ \E delivered \in BOOLEAN, written \in BOOLEAN :
          agent_3' = Report(agent_3, "starting", << >>, delivered, written, "processing")
    /\ UNCHANGED <<manager, batch>>

\* lines 172-181
ReportProcessing ==
    /\ agent_3.step = "processing"
    /\ \E delivered \in BOOLEAN, written \in BOOLEAN :
          agent_3' = Report(agent_3, "processing", << >>, delivered, written, "generate")
    /\ UNCHANGED <<manager, batch>>

\* lines 183-198: generate_educational_diagram gives a URL or raises
GenerateDiagram ==
    /\ agent_3.step = "generate"
    /\ \E generated \in BOOLEAN :
          agent_3' = IF generated
                     THEN [agent_3 EXCEPT !.diagram_url = DiagramUrl, !.step = "upload"]
                     ELSE [agent_3 EXCEPT !.e = "ValueError", !.step = "error"]
    /\ UNCHANGED <<manager, batch>>

\* lines 200-222: a failed upload of agent_3_data.json is logged
UploadData ==
    /\ agent_3.step = "upload"
    /\ \E written \in BOOLEAN :
          agent_3' = [agent_3 EXCEPT
                         !.stored = IF agent_3.s3_client /\ written
                                    THEN Append(@, "agent_3_data") ELSE @,
                         !.step = "finished"]
    /\ UNCHANGED <<manager, batch>>

\* lines 224-246
ReportFinished ==
    /\ agent_3.step = "finished"
    /\ \E delivered \in BOOLEAN, written \in BOOLEAN :
          LET a == Report(agent_3, "finished", [diagram_url |-> agent_3.diagram_url],
                          delivered, written, "returned") IN
          agent_3' = IF a.step = "returned"
                     THEN [a EXCEPT !.outcome = [status |-> "success",
                                                 diagram_url |-> agent_3.diagram_url]]
                     ELSE a
    /\ UNCHANGED <<manager, batch>>

\* lines 248-265: the exception is reported, then raised again; an exception
\* of send_status takes its place
ReportError ==
    /\ agent_3.step = "error"
    /\ \E delivered \in BOOLEAN, written \in BOOLEAN :
          LET sent == SendStatus(agent_3, "error", [error |-> agent_3.e], delivered) IN
          agent_3' =
             IF sent.raised # ""
             THEN [agent_3 EXCEPT !.step = "raised", !.outcome = [raised |-> sent.raised]]
             ELSE [agent_3 EXCEPT
                      !.reported = sent.reported,
                      !.stored = CreateStatusJson(agent_3, "error", written),
                      !.step = "raised",
                      !.outcome = [raised |-> agent_3.e]]
    /\ UNCHANGED <<manager, batch>>

AgentNext ==
    \/ LoadSession
    \/ ReportStarting
    \/ ReportProcessing
    \/ GenerateDiagram
    \/ UploadData
    \/ ReportFinished
    \/ ReportError

AgentSpec == AgentInit /\ [][AgentNext]_vars

(* ---------------------- BatchImageGeneratorAgent ---------------------- *)
\* line 98
script_parts == <<"hook", "concept", "process", "conclusion">>

\* self.models, by name
Models == {"flux-pro", "flux-dev", "flux-schnell", "sdxl"}

\* self.costs, in thousandths of a dollar
Costs == ("flux-pro" :> 50) @@ ("flux-dev" :> 25) @@ ("flux-schnell" :> 3) @@ ("sdxl" :> 10)

\* data["model"] and data["images_per_part"] of the input
ModelNames == {"flux-schnell", "sdxl", "dall-e"}
ImagesPerPart == {0, 1, 2}

\* what client.async_run gives for one image: a URL, a list with it, an
\* empty list, None, or an exception
RawOutputs == {"url", "list", "empty", "none", "raises"}

ImageUrl(part_name, image_index) == [t |-> "url", part_name |-> part_name, n |-> image_index]

\* lines 102-114: task_metadata, in the order the tasks are created
TaskMetadata(images_per_part) ==
    [k \in 1..(Len(script_parts) * images_per_part) |->
        [part_name |-> script_parts[((k - 1) \div images_per_part) + 1],
         index |-> (k - 1) % images_per_part]]

\* _generate_image_for_script_part: the dict it returns or the exception it raises
GenerateImage(model, part_name, image_index, raw) ==
    IF raw = "raises" THEN [raised |-> "ReplicateError"]
    ELSE LET image_url == IF raw \in {"url", "list"} THEN ImageUrl(part_name, image_index)
                          ELSE None IN
         IF ~Truthy(image_url) THEN [raised |-> "ValueError"]
         ELSE [raised |-> "",
               url |-> image_url,
               cost |-> Costs[model],
               metadata |-> [part_name |-> part_name, image_index |-> image_index,
                             model |-> model]]

\* a gather that lists the results as they come
SettleNext(results, slot, result) ==
    LET free == CHOOSE k \in DOMAIN results :
                   /\ results[k] = None
                   /\ \A j \in 1..(k - 1) : results[j] # None
    IN  [results EXCEPT ![free] = result]

\* asyncio.gather: the result of a task goes to the place of the task
Settle(results, slot, result) == [results EXCEPT ![slot] = result]

\* lines 119-144: the results taken in order into micro_scenes, total_cost and errors
RECURSIVE Organize(_, _, _)
Organize(results, task_metadata, n) ==
    IF n = 0
    THEN [micro_scenes |-> [p \in {script_parts[i] : i \in 1..Len(script_parts)} |-> << >>],
          total_cost |-> 0,
          errors |-> << >>]
    ELSE LET acc == Organize(results, task_metadata, n - 1)
             result == results[n]
             part_name == task_metadata[n].part_name IN
         IF result.raised # ""
         THEN [acc EXCEPT !.errors =
                  Append(@, [part_name |-> part_name, index |-> task_metadata[n].index,
                             failed |-> result.raised])]
         ELSE [acc EXCEPT
                  !.micro_scenes[part_name] =
                      Append(@, [image |-> result.url, metadata |-> result.metadata]),
                  !.total_cost = @ + result.cost]

\* the sum of line 149
RECURSIVE TotalImages(_, _)
TotalImages(micro_scenes, n) ==
    IF n = 0 THEN 0
    ELSE Len(micro_scenes[script_parts[n]]) + TotalImages(micro_scenes, n - 1)

\* lines 146-173: the AgentOutput of a run whose tasks are all done
Output(results, task_metadata) ==
    LET o == Organize(results, task_metadata, Len(results))
        total_images == TotalImages(o.micro_scenes, Len(script_parts))
        success == total_images > 0 IN
    [success |-> success,
     data |-> [micro_scenes |-> o.micro_scenes,
               cost |-> o.total_cost,
               failed_count |-> Len(o.errors),
               errors |-> IF o.errors # << >> THEN Lst(o.errors) ELSE None],
     cost |-> o.total_cost,
     error |-> IF success THEN None ELSE "All image generations failed"]

BatchInit ==
    /\ NoManager
    /\ NoAgent
    /\ \E model_name \in ModelNames, images_per_part \in ImagesPerPart :
          batch = [step |-> "input", model_name |-> model_name,
                   images_per_part |-> images_per_part, task_metadata |-> << >>,
                   running |-> {}, results |-> << >>, output |-> None]

\* lines 78-117: the model is checked, the tasks are created and gathered
\* (each runs up to its await of async_run); lines 175-185 for a model unknown
StartTasks ==
    /\ batch.step = "input"
    /\ batch' =
          IF batch.model_name \notin Models
          THEN [batch EXCEPT !.step = "returned",
                             !.output = [success |-> FALSE, data |-> << >>, cost |-> 0,
                                         error |-> "Invalid model"]]
          ELSE LET task_metadata == TaskMetadata(batch.images_per_part) IN
               [batch EXCEPT !.step = "gathering",
                             !.task_metadata = task_metadata,
                             !.running = DOMAIN task_metadata,
                             !.results = [k \in DOMAIN task_metadata |-> None]]
    /\ UNCHANGED <<manager, agent_3>>

\* lines 234-273: one of the running tasks gets its answer and ends
CompleteTask ==
    /\ batch.step = "gathering"
    /\ \E slot \in batch.running, raw \in RawOutputs :
          LET task == batch.task_metadata[slot]
              result == GenerateImage(batch.model_name, task.part_name, task.index, raw) IN
          batch' = [batch EXCEPT !.running = @ \ {slot},
                                 !.results = Settle(@, slot, result)]
    /\ UNCHANGED <<manager, agent_3>>

\* lines 117-173: gather returns when no task is running
OrganizeResults ==
    /\ batch.step = "gathering"
    /\ batch.running = {}
    /\ batch' = [batch EXCEPT !.step = "returned",
                              !.output = Output(batch.results, batch.task_metadata)]
    /\ UNCHANGED <<manager, agent_3>>

BatchNext ==
    \/ StartTasks
    \/ CompleteTask
    \/ OrganizeResults

BatchSpec == BatchInit /\ [][BatchNext]_vars

(* ------------------------------ snapshots ------------------------------ *)
StringFields == {"art_style", "setting", "lighting", "atmosphere", "camera_style",
                 "composition", "current_segment", "previous_scene_summary"}

\* the field types of the data model
WellTyped(s) ==
    /\ s.reference_image_url.t \in {"none", "str"}
    /\ s.seed.t \in {"none", "int"}
    /\ \A f \in StringFields : s[f].t = "str"
    /\ s.primary_colors.t = "list"
    /\ \A i \in 1..Len(s.primary_colors.v) : s.primary_colors.v[i].t = "str"
    /\ s.main_characters.t = "list"
    /\ \A i \in 1..Len(s.main_characters.v) :
          LET char == s.main_characters.v[i] IN
          /\ char.t = "dict"
          /\ DOMAIN char.v = {"name", "description"}
          /\ char.v["name"].t = "str"
          /\ char.v["description"].t = "str"

\* C1: a well-typed visual state survives to_dict then from_dict field by
\* field (sequences in the same order), the dict get_state returned loads
\* back to the same state, and generate_consistent_prompt returns the same
\* on the state and on its round trip for every choice of arguments.
RoundTrip_C1 ==
    WellTyped(visual_state) =>
        LET r == FromDict(ToDict(visual_state)) IN
        /\ r.raised = ""
        /\ \A f \in Fields : r.ret[f] = visual_state[f]
        /\ last.op = "get_state" =>
              /\ FromDict(last.ret).raised = ""
              /\ FromDict(last.ret).ret = visual_state
        /\ \A b \in Bases, seg \in Segments, v \in BOOLEAN, pf \in Frames :
              LET g1 == GenerateConsistentPrompt(visual_state, b, seg, v, pf)
                  g2 == GenerateConsistentPrompt(r.ret, b, seg, v, pf) IN
              /\ g1.raised = g2.raised
              /\ g1.raised = "" => g1.ret = g2.ret

\* a snapshot of a state with a character was taken and loaded back
RoundTripDone_C1 ==
    /\ last.op = "load_state"
    /\ last.raised = ""
    /\ state_dict # None
    /\ last.args.state_dict = state_dict
    /\ WellTyped(visual_state)
    /\ Len(visual_state.main_characters.v) > 0

\* C2: main_characters holds at most one entry per name.
UniqueNames_C2 ==
    LET chars == visual_state.main_characters.v IN
    \A i, j \in 1..Len(chars) :
        chars[i].v["name"] = chars[j].v["name"] => i = j

\* what define_character does to the list in one call: the first entry of
\* that name gets the description, in place, or a new entry goes to the end
DefineCharacterUpsert ==
    [][last'.op = "define_character" =>
        LET c  == visual_state.main_characters.v
            c2 == visual_state'.main_characters.v
            n  == last'.args.name
            d  == last'.args.description IN
        IF \E i \in 1..Len(c) : c[i].v["name"] = n
        THEN \E i \in 1..Len(c) :
                /\ c[i].v["name"] = n
                /\ c2 = [c EXCEPT ![i] = Char(n, d)]
        ELSE c2 = Append(c, Char(n, d))]_vars

\* C3: define_character(name, description) replaces the description of the
\* entry of that name in place, or appends a new entry at the end, and after
\* the call exactly one entry has that name and it carries the description.
Upsert_C3 ==
    [][last'.op = "define_character" =>
        LET c  == visual_state.main_characters.v
            c2 == visual_state'.main_characters.v
            n  == last'.args.name
            d  == last'.args.description IN
        /\ IF \E i \in 1..Len(c) : c[i].v["name"] = n
           THEN \E i \in 1..Len(c) :
                   /\ c[i].v["name"] = n
                   /\ c2 = [c EXCEPT ![i] = Char(n, d)]
           ELSE c2 = Append(c, Char(n, d))
        /\ Cardinality({i \in 1..Len(c2) : c2[i].v["name"] = n}) = 1
        /\ \A i \in 1..Len(c2) : c2[i].v["name"] = n => c2[i].v["description"] = d]_vars

(* -------------------------- prompt properties -------------------------- *)
Generated(l) == l.op = "generate_consistent_prompt" /\ l.raised = ""

IsPrefix(p, q) == Len(p) <= Len(q) /\ SubSeq(q, 1, Len(p)) = p

ContinuityClause(summary) ==
    <<"Continuing from previous scene: ">> \o Fmt(summary) \o <<".">>

\* C4: the returned prompt holds the clause "Continuing from previous scene:
\* {summary}." exactly when previous_scene_summary is non-empty and the
\* segment is not "hook"; when it holds it, the prompt starts with the clause,
\* a space and the base description.
Continuity_C4 ==
    [][Generated(last') =>
        LET summary == visual_state.previous_scene_summary
            a == last'.args
            out == last'.ret.v
            emitted == \E i \in 1..Len(out) : out[i] = "Continuing from previous scene: "
        IN  /\ emitted <=> (summary # EmptyStr /\ a.segment # Lit("hook"))
            /\ a.segment = Lit("hook") => ~emitted
            /\ emitted => IsPrefix(ContinuityClause(summary) \o <<" ">>
                                   \o a.base_description.v, out)]_vars

\* a prompt for "concept" came back starting with the continuity clause
ContinuityEmitted_C4 ==
    /\ Generated(last)
    /\ last.args.segment = Lit("concept")
    /\ visual_state.previous_scene_summary # EmptyStr
    /\ last.ret.v[1] = "Continuing from previous scene: "

Component(emit, text) == [emit |-> emit, text |-> text]

\* texts joined by sep, built from the right
RECURSIVE Joined(_, _)
Joined(texts, sep) ==
    IF Len(texts) = 0 THEN << >>
    ELSE IF Len(texts) = 1 THEN texts[1]
    ELSE Joined(SubSeq(texts, 1, Len(texts) - 1), sep) \o <<sep>> \o texts[Len(texts)]

\* the components of the prompt in their fixed order, each with its condition
PromptComponents(vs, a) ==
    LET chars == vs.main_characters.v
        colors == IF vs.primary_colors.t = "list" THEN vs.primary_colors.v ELSE << >>
        first3 == [i \in 1..(IF Len(colors) > 3 THEN 3 ELSE Len(colors)) |-> colors[i].v]
    IN  <<Component(vs.previous_scene_summary # EmptyStr /\ a.segment # Lit("hook"),
                    ContinuityClause(vs.previous_scene_summary)),
          Component(TRUE, a.base_description.v),
          Component(TRUE, <<"Art style: ">> \o Fmt(vs.art_style) \o <<".">>),
          Component(TRUE, Fmt(vs.lighting) \o <<", ">> \o Fmt(vs.atmosphere) \o <<".">>)>>
        \o [i \in 1..Len(chars) |->
              Component(TRUE, Fmt(chars[i].v["name"]) \o <<": ">>
                              \o Fmt(chars[i].v["description"]) \o <<".">>)]
        \o <<Component(vs.setting # EmptyStr,
                       <<"Setting: ">> \o Fmt(vs.setting) \o <<".">>),
             Component(a.is_video, <<"Smooth motion, cinematic camera movement.">>),
             Component(a.is_video /\ a.previous_frame \notin {None, EmptyStr},
                       <<"Matching previous frame: ">> \o Fmt(a.previous_frame) \o <<".">>),
             Component(Len(colors) > 0,
                       <<"Color palette: ">> \o Joined(first3, ", ") \o <<".">>),
             Component(TRUE, Fmt(vs.camera_style) \o <<", ">>
                             \o Fmt(vs.composition) \o <<".">>)>>

Emitted(c) == c.emit
EmittedNonEmpty(c) == c.emit /\ c.text # << >>
Texts(cs) == [i \in 1..Len(cs) |-> cs[i].text]

\* C5 as stated: the prompt is the single-space join of the components in
\* the fixed order, only the non-empty ones being joined.
PromptAssembly_C5 ==
    [][Generated(last') =>
        last'.ret.v = Joined(Texts(SelectSeq(PromptComponents(visual_state, last'.args),
                                             EmittedNonEmpty)), " ")]_vars

\* C5, amended: the prompt is the single-space join, in the fixed order, of
\* every component whose condition holds; base_description is always one of
\* them, also when it is the empty string.
PromptAssemblyAmended_C5 ==
    [][Generated(last') =>
        last'.ret.v = Joined(Texts(SelectSeq(PromptComponents(visual_state, last'.args),
                                             Emitted)), " ")]_vars

\* a prompt came back for an empty base description: it starts with the
\* separator that follows the empty component
EmptyBaseJoined_C5 ==
    /\ Generated(last)
    /\ last.args.base_description = EmptyStr
    /\ last.args.is_video
    /\ last.ret.v[1] = " "

\* C6: when generate_consistent_prompt has returned for segment X,
\* current_segment is X.
SegmentRecorded_C6 ==
    Generated(last) => visual_state.current_segment = last.args.segment

\* a prompt came back for "concept" and current_segment is "concept"
SegmentMoved_C6 ==
    /\ Generated(last)
    /\ last.args.segment = Lit("concept")
    /\ visual_state.current_segment = Lit("concept")

(* ------------------------ extraction properties ------------------------ *)
Extracted(l) == l.op = "extract_style_from_diagram"

Succeeded(resp) == resp.kind = "http" /\ resp.status \in 200..299

\* the vision call answered with a completion whose content is not JSON
UnparsableContent(resp) ==
    /\ "data" \in DOMAIN resp
    /\ resp.data.t = "dict"
    /\ "choices" \in DOMAIN resp.data.v
    /\ LET content == resp.data.v["choices"].v[1].v["message"].v["content"] IN
       "loads" \notin DOMAIN content

VisionFailed(resp) ==
    \/ ~Succeeded(resp)
    \/ "data" \notin DOMAIN resp
    \/ UnparsableContent(resp)

\* C7 as stated: after every call of extract_style_from_diagram(diagram_url),
\* reference_image_url is diagram_url, whether the download or the vision
\* analysis succeeded or not.
ReferenceAlwaysSet_C7 ==
    Extracted(last) => visual_state.reference_image_url = last.args.diagram_url

\* C7, amended: extract_style_from_diagram(diagram_url) sets
\* reference_image_url to diagram_url whenever the download answers with
\* status 200, whether the vision analysis succeeds or not; when the download
\* fails, reference_image_url keeps its prior value.
ReferenceSetOnDownload_C7 ==
    [][Extracted(last') =>
        IF last'.args.download = Http(200)
        THEN visual_state'.reference_image_url = last'.args.diagram_url
        ELSE visual_state'.reference_image_url = visual_state.reference_image_url]_vars

\* the image was downloaded, the vision call failed, the reference is set
ReferenceSetVisionFailed_C7 ==
    /\ Extracted(last)
    /\ last.args.download = Http(200)
    /\ last.args.vision = NetError
    /\ last.ret = EmptyDict
    /\ visual_state.reference_image_url = last.args.diagram_url

MergedFields == {"art_style", "primary_colors", "atmosphere"}

\* C8: when the extracted map is merged (the image was downloaded), each of
\* art_style, primary_colors and atmosphere takes the map's value if its key
\* is in the map and keeps its prior value otherwise.
MergePresentKeys_C8 ==
    [][(Extracted(last') /\ last'.args.download = Http(200)) =>
        \A f \in MergedFields :
            visual_state'[f] = IF f \in DOMAIN last'.ret.v THEN last'.ret.v[f]
                               ELSE visual_state[f]]_vars

\* C9: extract_style_from_diagram never raises; it returns the empty map
\* when the download fails, and when a vision capability is configured and
\* the vision call fails.
NeverRaises_C9 ==
    Extracted(last) =>
        /\ last.raised = ""
        /\ last.ret.t = "dict"
        /\ ~Succeeded(last.args.download) => last.ret = EmptyDict
        /\ (last.args.vision # NotCalled /\ VisionFailed(last.args.vision)) =>
              last.ret = EmptyDict

\* the download met a network error and the call returned the empty map
DownloadFailed_C9 ==
    /\ Extracted(last)
    /\ last.args.download = NetError
    /\ last.raised = ""
    /\ last.ret = EmptyDict

\* C10: without an API key and with the image downloaded,
\* extract_style_from_diagram returns the fixed fallback and the visual
\* state's art_style, primary_colors and atmosphere are the fallback's.
Fallback_C10 ==
    (Extracted(last) /\ ~Truthy(openrouter_api_key) /\ last.args.download = Http(200)) =>
        /\ last.ret = Dict([art_style      |-> Lit("illustrated, colorful, kid-friendly"),
                            primary_colors |-> Lst(<<Lit("vibrant"), Lit("saturated")>>),
                            atmosphere     |-> Lit("educational, engaging")])
        /\ visual_state.art_style = Lit("illustrated, colorful, kid-friendly")
        /\ visual_state.primary_colors = Lst(<<Lit("vibrant"), Lit("saturated")>>)
        /\ visual_state.atmosphere = Lit("educational, engaging")

\* the fallback was returned by a manager without an API key
FallbackReturned_C10 ==
    /\ Extracted(last)
    /\ openrouter_api_key = None
    /\ last.args.download = Http(200)
    /\ DOMAIN last.ret.v = MergedFields

(* ------------------------- session properties -------------------------- *)
SessionInitialized(l) == l.op = "initialize_from_video_session"

\* the ages of the sessions that are integers, with their values
IntegerAges ==
    {<<Str(<<"4">>), 4>>, <<Str(<<"6">>), 6>>, <<Str(<<"9">>), 9>>,
     <<Str(<<"1", "0">>), 10>>}

SettingFor(data) == Str(<<"Scene related to ">> \o data.v["topic"].v)

AtmosphereFor(data, prior) ==
    IF "child_interest" \in DOMAIN data.v /\ data.v["child_interest"] # EmptyStr
    THEN Str(<<"engaging, ">> \o data.v["child_interest"].v \o <<" themed">>)
    ELSE prior

\* C11: initialize_from_video_session sets setting to "Scene related to
\* {topic}", sets art_style by the band of every child_age that is an
\* integer (below 6, 6 to 9, 10 and above), and sets atmosphere to
\* "engaging, {child_interest} themed" when child_interest is non-empty,
\* leaving it otherwise.
SessionBands_C11 ==
    [][SessionInitialized(last') =>
        LET data == last'.args.video_session_data IN
        /\ visual_state'.setting = SettingFor(data)
        /\ visual_state'.atmosphere = AtmosphereFor(data, visual_state.atmosphere)
        /\ \A p \in IntegerAges :
              ("child_age" \in DOMAIN data.v /\ data.v["child_age"] = p[1]) =>
                 visual_state'.art_style =
                    CASE p[2] < 6  -> Lit("simple, bold shapes, primary colors")
                      [] p[2] >= 6 /\ p[2] < 10 ->
                            Lit("colorful cartoon illustration, friendly characters")
                      [] p[2] >= 10 -> Lit("detailed illustration, realistic elements")]_vars

\* a session of a child of 6 interested in space was taken in
SessionOfSix_C11 ==
    /\ SessionInitialized(last)
    /\ last.args.video_session_data.v = [topic |-> Lit("Water Cycle"),
                                         child_age |-> Str(<<"6">>),
                                         child_interest |-> Lit("space")]
    /\ visual_state.art_style = Lit("colorful cartoon illustration, friendly characters")
    /\ visual_state.setting = Str(<<"Scene related to ", "Water Cycle">>)
    /\ visual_state.atmosphere = Str(<<"engaging, ", "space", " themed">>)

\* C12: with a child_age that is no integer, or none, the call does not
\* raise and leaves art_style as it was; setting and atmosphere are set as
\* for an integer age.
SessionBadAge_C12 ==
    [][SessionInitialized(last') =>
        LET data == last'.args.video_session_data IN
        ("child_age" \notin DOMAIN data.v
            \/ \A p \in IntegerAges : data.v["child_age"] # p[1]) =>
           /\ last'.raised = ""
           /\ visual_state'.art_style = visual_state.art_style
           /\ visual_state'.setting = SettingFor(data)
           /\ visual_state'.atmosphere = AtmosphereFor(data, visual_state.atmosphere)]_vars

\* after a style extraction, a session with the age "eight" left art_style
SessionEightKept_C12 ==
    /\ SessionInitialized(last)
    /\ "child_age" \in DOMAIN last.args.video_session_data.v
    /\ last.args.video_session_data.v["child_age"] = Str(<<"e", "i", "g", "h", "t">>)
    /\ last.raised = ""
    /\ visual_state.art_style = Lit("illustrated, colorful, kid-friendly")
    /\ visual_state.setting # EmptyStr

\* a snapshot that lacks a key of the data model or holds a value of a wrong shape
Malformed(d) ==
    \/ d.t # "dict"
    \/ ~(Fields \subseteq DOMAIN d.v)
    \/ ~WellTyped(d.v)

\* C13: load_state of a snapshot that lacks a required key, or holds a
\* value of the wrong shape, fails with MalformedStateError.
MalformedRejected_C13 ==
    (last.op = "load_state" /\ Malformed(last.args.state_dict)) =>
        last.raised = "MalformedStateError"

HelperInitialized(l) == l.op = "initialize"

\* the failures the try of initialize can meet, told from the storage's answer
Loadable(resp) ==
    /\ resp.kind = "body"
    /\ "loads" \in DOMAIN resp.text
    /\ resp.text.loads.t = "dict"
    /\ DOMAIN resp.text.loads.v \subseteq Fields

\* C14: initialize never raises and leaves a manager; it returns True
\* exactly when the snapshot was read, parsed and loaded, the manager then
\* holding the snapshot's fields over the defaults; on every failure it
\* returns False and the manager holds the all-defaults state.
InitializeSafe_C14 ==
    [][HelperInitialized(last') =>
        LET resp == last'.args.storage IN
        /\ last'.raised = ""
        /\ consistency_manager' = Manager
        /\ last'.ret = PyBool(Loadable(resp))
        /\ IF Loadable(resp)
           THEN \A f \in Fields :
                   visual_state'[f] =
                      IF f \in DOMAIN resp.text.loads.v
                         /\ ~(f \in {"primary_colors", "main_characters"}
                              /\ resp.text.loads.v[f] = None)
                      THEN resp.text.loads.v[f]
                      ELSE DefaultSnapshot.v[f]
           ELSE visual_state' = VisualState(<< >>).ret]_vars

\* a helper initialized a second time, the storage now down, holds the defaults
ReinitializedToDefaults_C14 ==
    /\ HelperInitialized(last)
    /\ last.args.storage = StorageDown
    /\ last.ret = PyBool(FALSE)
    /\ ops = 2
    /\ consistency_manager = Manager
    /\ visual_state = VisualState(<< >>).ret

Enhanced(l) == l.op = "enhance_video_prompt"

\* the call found a manager and its generation did not raise
EnhanceSucceeded(l, cm, vs, scene) ==
    /\ Enhanced(l)
    /\ cm = Manager
    /\ GenerateConsistentPrompt(vs, l.args.base_prompt, l.args.segment, TRUE, scene).raised = ""

HasFrameClause(text) ==
    /\ text.t = "str"
    /\ \E i \in 1..Len(text.v) : text.v[i] = "Matching previous frame: "

\* the text holds "Matching previous frame: {frame}."
HasFrameClauseOf(text, frame) ==
    LET clause == <<"Matching previous frame: ">> \o frame.v \o <<".">> IN
    /\ text.t = "str"
    /\ \E i \in 1..Len(text.v) :
          /\ i + Len(clause) - 1 <= Len(text.v)
          /\ SubSeq(text.v, i, i + Len(clause) - 1) = clause

\* the last of the first n prompts of an apply_video_consistency that was
\* enhanced (0: none): an enhanced prompt is longer than the one given
RECURSIVE LastEnhanced(_, _, _)
LastEnhanced(prompts, results, n) ==
    IF n = 0 THEN 0
    ELSE IF results[n] # prompts[n].prompt THEN n
    ELSE LastEnhanced(prompts, results, n - 1)

\* C15: previous_scene starts as None and changes only when an
\* enhance_video_prompt call generates successfully; such a call generates
\* with previous_frame = previous_scene, so with no "Matching previous
\* frame" clause before the first success and with the clause of "Previous
\* {s} segment" after a success for segment s, and leaves previous_scene =
\* "Previous {segment} segment"; apply_video_consistency chains its prompts
\* the same way from a new helper.
SceneChain_C15 ==
    /\ previous_scene = None
    /\ [][/\ IF EnhanceSucceeded(last', consistency_manager, visual_state, previous_scene)
             THEN LET a == last'.args IN
                  /\ last'.ret = GenerateConsistentPrompt(visual_state, a.base_prompt,
                                      a.segment, TRUE, previous_scene).ret
                  /\ previous_scene = None => ~HasFrameClause(last'.ret)
                  /\ previous_scene # None =>
                        /\ \E s \in Segments : previous_scene = PreviousSegment(s)
                        /\ HasFrameClauseOf(last'.ret, previous_scene)
                  /\ previous_scene' = PreviousSegment(a.segment)
             ELSE previous_scene' = previous_scene
          /\ last'.op = "apply_video_consistency" =>
                LET prompts == last'.args.prompts
                    results == last'.ret.v
                IN  /\ Len(results) = Len(prompts)
                    /\ \A k \in 1..Len(prompts) :
                          results[k] # prompts[k].prompt =>
                             LET j == LastEnhanced(prompts, results, k - 1) IN
                             IF j = 0 THEN ~HasFrameClause(results[k])
                             ELSE HasFrameClauseOf(results[k],
                                                   PreviousSegment(prompts[j].segment))]_vars

\* after initialize and an enhanced hook prompt, the concept prompt was
\* enhanced with the hook segment as its previous frame
SecondEnhanced_C15 ==
    /\ Enhanced(last)
    /\ ops = 3
    /\ last.args.segment = Lit("concept")
    /\ HasFrameClauseOf(last.ret, Str(<<"Previous ", "hook", " segment">>))
    /\ previous_scene = Str(<<"Previous ", "concept", " segment">>)

\* the call found a manager and its generation raised
EnhanceFailed(l, cm, vs, scene) ==
    /\ Enhanced(l)
    /\ cm = Manager
    /\ GenerateConsistentPrompt(vs, l.args.base_prompt, l.args.segment, TRUE, scene).raised # ""

\* C16: an enhance_video_prompt whose generation fails does not raise,
\* returns base_prompt, and leaves previous_scene and current_segment as
\* they were before the call.
FailedEnhanceNoEffect_C16 ==
    [][EnhanceFailed(last', consistency_manager, visual_state, previous_scene) =>
        /\ last'.raised = ""
        /\ last'.ret = last'.args.base_prompt
        /\ previous_scene' = previous_scene
        /\ visual_state'.current_segment = visual_state.current_segment]_vars

\* C17: while the helper holds no manager, enhance_video_prompt returns
\* base_prompt and changes nothing, previous_scene included, and get_seed
\* and get_reference_image_url return None, whatever the segment and
\* however many calls came before.
UninitializedInert_C17 ==
    [][consistency_manager = None =>
        /\ Enhanced(last') =>
              /\ last'.raised = ""
              /\ last'.ret = last'.args.base_prompt
              /\ previous_scene' = previous_scene
              /\ consistency_manager' = None
              /\ visual_state' = visual_state
        /\ last'.op \in {"get_seed", "get_reference_image_url"} =>
              /\ last'.raised = ""
              /\ last'.ret = None]_vars

\* a third enhance_video_prompt in a row on a helper never initialized
ThirdUninitialized_C17 ==
    /\ Enhanced(last)
    /\ ops = 3
    /\ consistency_manager = None
    /\ last.args.segment = Lit("concept")
    /\ last.ret = Lit("Drippy explains evaporation")
    /\ previous_scene = None

\* the operations that are neither prompt generation nor a load
SegmentKeepers ==
    {"define_character", "update_scene_context", "set_seed",
     "initialize_from_video_session", "extract_style_from_diagram",
     "get_state", "get_reference_image_params"}

\* C18: current_segment changes only in a generate_consistent_prompt or a
\* load_state; define_character, update_scene_context, set_seed,
\* initialize_from_video_session, extract_style_from_diagram, get_state and
\* get_reference_image_params leave it as it was.
SegmentFrame_C18 ==
    [][/\ last'.op \in SegmentKeepers =>
              visual_state'.current_segment = visual_state.current_segment
       /\ visual_state'.current_segment # visual_state.current_segment =>
              last'.op \in {"generate_consistent_prompt", "load_state"}]_vars

\* after a prompt for the concept segment, update_scene_context left the
\* segment at concept
SegmentKept_C18 ==
    /\ last.op = "update_scene_context"
    /\ visual_state.previous_scene_summary # EmptyStr
    /\ visual_state.current_segment = Lit("concept")

\* the segments of the data model
SegmentNames == {Lit("hook"), Lit("concept"), Lit("process"), Lit("conclusion")}

\* C19: current_segment is always one of hook, concept, process, conclusion.
SegmentEnum_C19 == visual_state.current_segment \in SegmentNames

\* C20: every string field of the visual state is a string, and
\* primary_colors and main_characters are sequences, in every state.
AlwaysDefined_C20 ==
    /\ \A f \in StringFields : visual_state[f].t = "str"
    /\ visual_state.primary_colors.t = "list"
    /\ visual_state.main_characters.t = "list"

\* the tokens of clause stand together in text
HoldsClause(text, clause) ==
    \E i \in 1..Len(text.v) :
        /\ i + Len(clause) - 1 <= Len(text.v)
        /\ SubSeq(text.v, i, i + Len(clause) - 1) = clause

PaletteOpenings(text) == {i \in 1..Len(text.v) : text.v[i] = "Color palette: "}

\* "Color palette: c1, c2, c3." for the colours given, three at most
PaletteClause(colors) ==
    <<"Color palette: ">>
    \o (CASE Len(colors) = 1 -> colors[1].v
          [] Len(colors) = 2 -> colors[1].v \o <<", ">> \o colors[2].v
          [] Len(colors) >= 3 -> colors[1].v \o <<", ">> \o colors[2].v
                                   \o <<", ">> \o colors[3].v)
    \o <<".">>

\* C21: a generated prompt holds one "Color palette" clause, with the first
\* three colours in their order, comma-joined (all of them when there are
\* one to three), when primary_colors is not empty, and none when it is.
Palette_C21 ==
    [][Generated(last') =>
        LET colors == visual_state.primary_colors IN
        IF colors.t = "list" /\ Len(colors.v) > 0
        THEN /\ Cardinality(PaletteOpenings(last'.ret)) = 1
             /\ HoldsClause(last'.ret, PaletteClause(colors.v))
        ELSE PaletteOpenings(last'.ret) = {}]_vars

\* a prompt generated with four colours in the state names red, blue and green
PaletteOfFour_C21 ==
    /\ Generated(last)
    /\ visual_state.primary_colors =
           Lst(<<Lit("red"), Lit("blue"), Lit("green"), Lit("gold")>>)
    /\ HoldsClause(last.ret, <<"Color palette: ", "red", ", ", "blue", ", ", "green", ".">>)

\* the state after the calls of the first n tasks of done, one after the other
RECURSIVE Serial(_, _)
Serial(done, n) ==
    IF n = 0 THEN SharedState
    ELSE LET r == CallOn(calls[done[n]], Serial(done, n - 1)) IN
         [vs |-> r.vs, scene |-> r.scene]

\* C22: whatever the interleaving of the tasks, the state is the one the
\* finished calls leave when run one after the other in the order they
\* finished, each returned what it returns in that serial run, and after a
\* prompt call finished last current_segment is its segment (and, for
\* enhance_video_prompt, previous_scene is "Previous {segment} segment").
Serializable_C22 ==
    /\ \A t \in DOMAIN pc : pc[t] # "suspended"
    /\ [vs |-> visual_state, scene |-> previous_scene] = Serial(order, Len(order))
    /\ \A k \in 1..Len(order) :
          returned[order[k]] = CallOn(calls[order[k]], Serial(order, k - 1)).ret
    /\ Len(order) > 0 =>
          LET call == calls[order[Len(order)]] IN
          /\ call.op \in {"generate_consistent_prompt", "enhance_video_prompt"} =>
                visual_state.current_segment = call.segment
          /\ call.op = "enhance_video_prompt" =>
                previous_scene = PreviousSegment(call.segment)

\* the second task defined Sunny first, then the first task's prompt for the
\* concept segment named Sunny
SecondTaskFirst_C22 ==
    /\ DOMAIN calls # {}
    /\ order = <<2, 1>>
    /\ calls[1].op = "enhance_video_prompt"
    /\ calls[2].op = "define_character"
    /\ HoldsClause(returned[1], <<"Sunny", ": ", "a yellow sun", ".">>)
    /\ visual_state.current_segment = Lit("concept")
    /\ previous_scene = PreviousSegment(Lit("concept"))

\* C23: get_reference_image_params returns None when the state has no
\* reference image, and otherwise the dict of the state's URL, style_weight
\* 0.6 and reference_type "style"; it leaves the visual state as it was.
ReferenceParams_C23 ==
    [][last'.op = "get_reference_image_params" =>
        LET url == visual_state.reference_image_url IN
        /\ last'.raised = ""
        /\ url \in {None, EmptyStr} => last'.ret = None
        /\ url \notin {None, EmptyStr} =>
              /\ last'.ret.t = "dict"
              /\ DOMAIN last'.ret.v = {"reference_image_url", "style_weight", "reference_type"}
              /\ last'.ret.v["reference_image_url"] = url
              /\ last'.ret.v["style_weight"] = [t |-> "float", tenths |-> 6]
              /\ last'.ret.v["reference_type"] = Lit("style")
        /\ visual_state' = visual_state]_vars

\* the parameters were asked for after a style extraction set the URL
ReferenceParamsGiven_C23 ==
    /\ last.op = "get_reference_image_params"
    /\ last.ret # None
    /\ last.ret.v["reference_image_url"] = Lit("https://cdn/diagram-2.png")
    /\ visual_state.reference_image_url = Lit("https://cdn/diagram-2.png")

\* C24: generate_consistent_prompt changes no field of the visual state but
\* current_segment, so the same call made again on the state it left returns
\* the same string, and so does the same call made twice in a row.
GenerateFrame_C24 ==
    [][last'.op = "generate_consistent_prompt" =>
        LET a == last'.args IN
        /\ \A f \in Fields \ {"current_segment"} : visual_state'[f] = visual_state[f]
        /\ Generated(last') =>
              LET again == GenerateConsistentPrompt(visual_state', a.base_description,
                               a.segment, a.is_video, a.previous_frame) IN
              /\ again.raised = ""
              /\ again.ret = last'.ret
              /\ again.vs = visual_state'
        /\ (Generated(last) /\ Generated(last') /\ last.args = a) =>
              last'.ret = last.ret]_vars

\* the third call generated a concept prompt with a scene summary in the
\* state and left the summary there
GeneratedThrice_C24 ==
    /\ Generated(last)
    /\ ops = 3
    /\ last.args.segment = Lit("concept")
    /\ visual_state.previous_scene_summary = Lit("Drippy rose into the sky")
    /\ visual_state.current_segment = Lit("concept")
    /\ HoldsClause(last.ret, ContinuityClause(Lit("Drippy rose into the sky")))

\* C25: define_character changes no dict a caller holds, neither one that
\* get_state returned nor one that load_state was given.
NoSharedStructure_C25 ==
    [][last'.op = "define_character" => state_dict' = state_dict]_vars

RunEnded == agent_3.step \in {"returned", "raised"}

ReportedStatuses == [i \in 1..Len(agent_3.reported) |-> agent_3.reported[i].status]

\* C26: a run that ended reported "starting", then "processing", then one
\* of "finished" and "error"; "finished" carries the URL of the diagram
\* generated; after "error" the caller gets the exception that was caught;
\* no failed write to storage is what the caller gets.
StatusOrder_C26 ==
    (RunEnded /\ agent_3.channel # "none") =>
        /\ ReportedStatuses \in {<<"starting", "processing", "finished">>,
                                 <<"starting", "processing", "error">>}
        /\ ReportedStatuses[3] = "finished" =>
              /\ agent_3.diagram_url = DiagramUrl
              /\ agent_3.reported[3].diagram_url = DiagramUrl
              /\ agent_3.outcome = [status |-> "success", diagram_url |-> DiagramUrl]
        /\ ReportedStatuses[3] = "error" =>
              /\ agent_3.outcome = [raised |-> agent_3.e]
              /\ agent_3.reported[3].error = agent_3.e

\* what does hold of every run: the statuses delivered are in the order
\* starting, processing, terminal, with one terminal status at most
StatusRank(status) ==
    CASE status = "starting" -> 1
      [] status = "processing" -> 2
      [] status \in {"finished", "error"} -> 3

ReportedInOrder ==
    \A i, j \in 1..Len(agent_3.reported) :
        i < j => StatusRank(agent_3.reported[i].status) < StatusRank(agent_3.reported[j].status)

\* the images of a part: the indexes of its tasks that are filed, in order
FiledIndexes(images) == [i \in 1..Len(images) |-> images[i].metadata.image_index]

\* whether the task of a part and index got a URL is read from its result
TaskSucceeded(part_name, index) ==
    \E k \in DOMAIN batch.results :
        /\ batch.task_metadata[k] = [part_name |-> part_name, index |-> index]
        /\ batch.results[k].raised = ""

\* C27: with a valid model, 4 x images_per_part tasks are started together;
\* when the run returns, each part holds the images of exactly its tasks
\* that succeeded, in image_index order, each with its own URL; the cost is
\* the model's cost times the number of images; every failed task has one
\* entry in errors and is counted once in failed_count; success is true
\* exactly when there is at least one image.
Accounting_C27 ==
    (batch.model_name \in Models /\ batch.step # "input") =>
        LET n == batch.images_per_part
            parts == {script_parts[i] : i \in 1..Len(script_parts)}
            indexes == 0..(n - 1) IN
        /\ Len(batch.task_metadata) = 4 * n
        /\ \A p \in parts, i \in indexes :
              Cardinality({k \in DOMAIN batch.task_metadata :
                              batch.task_metadata[k] = [part_name |-> p, index |-> i]}) = 1
        /\ batch.step = "gathering" =>
              \A k \in batch.running : batch.results[k] = None
        /\ batch.step = "returned" =>
              LET out == batch.output
                  won == {<<p, i>> \in parts \X indexes : TaskSucceeded(p, i)}
                  lost == (parts \X indexes) \ won
                  errors == IF out.data.errors = None THEN << >> ELSE out.data.errors.v IN
              /\ \A p \in parts :
                    LET images == out.data.micro_scenes[p] IN
                    /\ \A a, b \in 1..Len(images) :
                          a < b => FiledIndexes(images)[a] < FiledIndexes(images)[b]
                    /\ {FiledIndexes(images)[a] : a \in 1..Len(images)}
                          = {i \in indexes : <<p, i>> \in won}
                    /\ \A a \in 1..Len(images) :
                          /\ images[a].metadata.part_name = p
                          /\ images[a].image = ImageUrl(p, images[a].metadata.image_index)
              /\ out.cost = Costs[batch.model_name] * Cardinality(won)
              /\ out.data.cost = out.cost
              /\ out.data.failed_count = Cardinality(lost)
              /\ Len(errors) = Cardinality(lost)
              /\ \A t \in lost :
                    Cardinality({a \in 1..Len(errors) :
                                    errors[a].part_name = t[1] /\ errors[a].index = t[2]}) = 1
              /\ out.success = (Cardinality(won) > 0)

\* a run of two images per part returned with the first image of the hook
\* failed and the second filed alone under hook
SecondImageFiled_C27 ==
    /\ batch # None
    /\ batch.step = "returned"
    /\ batch.images_per_part = 2
    /\ batch.model_name = "sdxl"
    /\ batch.output.success
    /\ FiledIndexes(batch.output.data.micro_scenes["hook"]) = <<1>>
    /\ Len(batch.output.data.micro_scenes["concept"]) = 2
    /\ batch.output.data.failed_count >= 1

====
